---- MODULE Spec2Model ----
(***************************************************************************)
(* Model of the news pipeline of arshia90c-ops/ai-news-agent.              *)
(*                                                                         *)
(*   Spec     AINewsAgent.run_daily_digest (src/ai_news_agent.py):         *)
(*            concurrent feed tasks, sequential aggregator fetches,        *)
(*            batched scoring, sort, digest selection, email, save.        *)
(*   BotSpec  AINewsTelegramBot (src/telegram_bot.py): the article         *)
(*            cache with its 30 minute check, collect_news and the         *)
(*            /latest, "latest" and "refresh" handlers.                    *)
(*   FeedSpec process_rss_feed on feed documents longer than the ten       *)
(*            entries it reads.                                            *)
(*   BatchSpec analyze_articles on lists that take several scoring calls,  *)
(*            and the digest selection from them.                          *)
(*   RedditSpec collect_reddit_posts over two subreddits, with listings    *)
(*            longer than the limit asked for.                             *)
(*   WorkflowSpec the workflow variant's run                               *)
(*            (src/.github/workflows/ai_news_agent.py): sequential         *)
(*            collection, analysis, email, save.                           *)
(*   EnrichSpec the two enrichment routines, analyze_articles and          *)
(*            analyze_articles_with_ai, each from its own start.           *)
(*                                                                         *)
(* An article is a Python dict: here a record whose DOMAIN is the set of   *)
(* keys present, so that a key that was never set is really absent.        *)
(***************************************************************************)
EXTENDS Integers, Sequences, FiniteSets, TLC

VARIABLES
    \* ---- AINewsAgent ----
    pc,                  \* position in run_daily_digest
    feed_doc,            \* per feed: <<response>> when what the URL serves
                         \* is fixed beforehand, <<>> when it is not
    feed_task,           \* per feed task: "pending" | "done" | "failed"
    results,             \* per feed task: the list it returned to gather
    reddit_idx,          \* index of the next subreddit of reddit_sources
    reddit_log,          \* per subreddit requested: what the iteration came to
    collected_articles,  \* self.collected_articles
    batch_i,             \* analyze_articles' loop variable i (0-based)
    batch_log,           \* per scoring call made: what it came to
    top_articles,        \* generate_email_digest's selection
    email_sent,          \* "none" | "ok" | "failed"
    saved,               \* save_data_for_dashboard was reached
    \* ---- AINewsTelegramBot ----
    articles_cache,      \* self.articles_cache
    analysis_input,      \* the list last handed to analyze_articles_with_ai
    last_update,         \* self.last_update: <<>> is None, <<t>> a datetime
    now,                 \* the wall clock, in seconds
    hpc,                 \* per handler instance: "idle" | "building"
    hkind,               \* per handler instance: which handler is running
    reply,               \* per handler instance: the last message it sent
    has_api_key,         \* whether self.gemini_api_key is set
    ticks,               \* number of clock advances so far
    \* ---- AINewsAgent, the workflow variant ----
    wf_pc,               \* position in run
    wf_idx,              \* index of the next source of the loop under way
    wf_articles,         \* the articles collected so far (all_articles)
    wf_log,              \* per source requested: the loop, and what came of it
    wf_analysis,         \* what analyze_with_ai returned
    wf_email,            \* "none" | "ok" | "failed"
    wf_saved             \* save_data was reached

agentVars == <<pc, feed_doc, feed_task, results, reddit_idx, reddit_log, collected_articles, batch_i,
               batch_log, top_articles, email_sent, saved>>
botVars == <<articles_cache, analysis_input, last_update, hpc, hkind, reply, has_api_key, ticks>>
wfVars == <<wf_pc, wf_idx, wf_articles, wf_log, wf_analysis, wf_email, wf_saved>>
vars == <<agentVars, botVars, now, wfVars>>

(***************************************************************************)
(* Bounds of the model.                                                    *)
(***************************************************************************)
MaxArticles == 3     \* most articles one run of the agent collects
MaxTicks == 2        \* most clock advances in one behaviour of the bot
MaxFeedLen == 12     \* most entries of a feed document served to FeedSpec

(***************************************************************************)
(* Program constants.                                                      *)
(***************************************************************************)
FeedLimit == 10          \* feed.entries[:10]
DescLimit == 500         \* len(description) > 500
RedditMinScore == 50     \* post_data.get('score', 0) < 50
OneDay == 86400          \* timedelta(days=1); also the range of .seconds
batch_size == 5
DefaultScore == 50       \* analysis.get('relevance_score', 50)
MinScore == 60           \* a.get('relevance_score', 0) >= 60
TopLimit == 15           \* [...][:15]
FallbackLimit == 10      \* self.collected_articles[:10]
StartTime == 1000000     \* the clock when the program starts

\* A relevance_score of a JSON type that is not a number ("high", null, a list).
NonNumeric == -999

(***************************************************************************)
(* Generic helpers.                                                        *)
(***************************************************************************)
\* Python slice s[:n]
Take(s, n) == IF Len(s) <= n THEN s ELSE SubSeq(s, 1, n)

\* Python dict.update: the keys of u are set, the others are kept
Update(a, u) == [k \in DOMAIN a \cup DOMAIN u |-> IF k \in DOMAIN u THEN u[k] ELSE a[k]]

\* Python dict.get(k, default)
Get(a, k, default) == IF k \in DOMAIN a THEN a[k] ELSE default

\* all sequences over S of length at most n
RECURSIVE SeqsUpTo(_, _)
SeqsUpTo(S, n) ==
    IF n = 0 THEN {<<>>}
    ELSE LET shorter == SeqsUpTo(S, n - 1)
         IN  shorter \cup {Append(s, x) : s \in {t \in shorter : Len(t) = n - 1}, x \in S}

(***************************************************************************)
(* AINewsAgent: sources.                                                   *)
(***************************************************************************)
\* self.website_sources: the display names, in list order (two of the ten)
website_sources == <<"TechCrunch", "Wired">>

\* self.reddit_sources (one of the five)
reddit_sources == <<"artificial">>

Early == StartTime - 7200
Late == StartTime - 60
Old == StartTime - OneDay - 3600

\* Entries a feed document may hold. pub = <<>>: no parseable date.
\* broken: processing the entry raises (caught per entry, lines 133-135).
FeedEntries ==
    { [link |-> "u1", pub |-> <<Early>>, desc_len |-> 120, broken |-> FALSE],
      [link |-> "u2", pub |-> <<Late>>,  desc_len |-> 800, broken |-> FALSE],
      [link |-> "u1", pub |-> <<Old>>,   desc_len |-> 120, broken |-> FALSE],
      [link |-> "u2", pub |-> <<>>,      desc_len |-> 0,   broken |-> FALSE],
      [link |-> "u1", pub |-> <<Late>>,  desc_len |-> 120, broken |-> TRUE] }

\* What one GET of a feed URL may come to.
FeedResponses ==
    { [status |-> s, entries |-> <<>>] : s \in {"exception", "timeout", "http_error"} }
    \cup { [status |-> "ok", entries |-> es] : es \in SeqsUpTo(FeedEntries, MaxArticles) }

\* Feed documents of up to MaxFeedLen entries: a run of one entry followed
\* by a run of another.
FeedDocuments ==
    { [j \in 1..n |-> IF j <= k THEN a ELSE b] :
          n \in 0..MaxFeedLen, k \in 0..MaxFeedLen, a \in FeedEntries, b \in FeedEntries }

\* What the GET of such a feed may come to.
LongFeedResponses ==
    { [status |-> "http_error", entries |-> <<>>] }
    \cup { [status |-> "ok", entries |-> es] : es \in FeedDocuments }

\* The responses with at most one entry.
ShortFeedResponses == { resp \in FeedResponses : Len(resp.entries) <= 1 }

\* fetch_url: the body on HTTP 200, None (here <<>>) on every failure
fetch_url(resp) == IF resp.status = "ok" THEN <<resp.entries>> ELSE <<>>

\* description[:500] + "..." when longer than 500 characters
TruncateDescription(len) == IF len > DescLimit THEN DescLimit + 3 ELSE len

\* the dict built at lines 122-129
RssArticle(entry, source_name, t) ==
    [ title |-> "title " \o entry.link,
      url |-> entry.link,
      source |-> source_name,
      description |-> TruncateDescription(entry.desc_len),
      published |-> IF entry.pub # <<>> THEN entry.pub[1] ELSE t,
      type |-> "rss" ]

\* the loop of lines 93-135 over feed.entries[:10]
RECURSIVE RssLoop(_, _, _)
RssLoop(entries, source_name, t) ==
    IF entries = <<>> THEN <<>>
    ELSE LET entry == Head(entries)
             rest == RssLoop(Tail(entries), source_name, t)
             cutoff_time == t - OneDay
         IN  IF entry.broken THEN rest
             ELSE IF entry.pub # <<>> /\ entry.pub[1] < cutoff_time THEN rest
             ELSE <<RssArticle(entry, source_name, t)>> \o rest

\* the loop over every entry of the document
process_rss_feed_NoLimit(resp, source_name, t) ==
    LET content == fetch_url(resp)
    IN  IF content = <<>> \/ content[1] = <<>> THEN <<>>
        ELSE RssLoop(content[1], source_name, t)

\* process_rss_feed's return value: the articles of one feed
process_rss_feed(resp, source_name, t) ==
    LET content == fetch_url(resp)
    IN  IF content = <<>> \/ content[1] = <<>> THEN <<>>
        ELSE RssLoop(Take(content[1], FeedLimit), source_name, t)

(***************************************************************************)
(* AINewsAgent: the aggregator (collect_reddit_posts).                     *)
(***************************************************************************)
\* Posts a listing may hold. broken: a key the loop reads is missing, so
\* processing the post raises KeyError (caught per subreddit, line 183).
RedditPosts ==
    { [permalink |-> "/r/1", created_utc |-> Late,  score |-> 100, selftext_len |-> 0,   broken |-> FALSE],
      [permalink |-> "/r/2", created_utc |-> Early, score |-> 50,  selftext_len |-> 700, broken |-> FALSE],
      [permalink |-> "/r/3", created_utc |-> Late,  score |-> 49,  selftext_len |-> 0,   broken |-> FALSE],
      [permalink |-> "/r/4", created_utc |-> Old,   score |-> 100, selftext_len |-> 0,   broken |-> FALSE],
      [permalink |-> "/r/5", created_utc |-> Late,  score |-> 100, selftext_len |-> 0,   broken |-> TRUE] }

\* What one GET of hot.json may come to. json_ok = FALSE: the body is not
\* JSON or has no data.children, so line 155 or 157 raises.
RedditResponses ==
    { [status |-> s, json_ok |-> FALSE, children |-> <<>>] :
          s \in {"exception", "timeout", "http_error"} }
    \cup { [status |-> "ok", json_ok |-> FALSE, children |-> <<>>] }
    \cup { [status |-> "ok", json_ok |-> TRUE, children |-> ps] :
               ps \in SeqsUpTo(RedditPosts, MaxArticles) }

\* selftext[:500] + "..." if selftext else ''
RedditDescription(len) ==
    IF len > 0 THEN (IF len > DescLimit THEN DescLimit ELSE len) + 3 ELSE 0

\* the dict built at lines 169-177
RedditArticle(post_data, subreddit) ==
    [ title |-> "post " \o post_data.permalink,
      url |-> "https://reddit.com" \o post_data.permalink,
      source |-> "r/" \o subreddit,
      description |-> RedditDescription(post_data.selftext_len),
      published |-> post_data.created_utc,
      score |-> post_data.score,
      type |-> "reddit" ]

\* the loop of lines 157-179: the articles appended, one by one, until the
\* listing ends or a post raises
RECURSIVE RedditLoop(_, _, _)
RedditLoop(children, subreddit, t) ==
    IF children = <<>> THEN <<>>
    ELSE LET post_data == Head(children)
             rest == RedditLoop(Tail(children), subreddit, t)
         IN  IF post_data.broken THEN <<>>
             ELSE IF post_data.created_utc < t - OneDay THEN rest
             ELSE IF post_data.score < RedditMinScore THEN rest
             ELSE <<RedditArticle(post_data, subreddit)>> \o rest

\* what one subreddit adds to collected_articles (lines 150-185)
RedditAppended(resp, subreddit, t) ==
    LET content == IF resp.status = "ok" THEN <<resp>> ELSE <<>>
    IN  IF content = <<>> THEN <<>>
        ELSE IF ~resp.json_ok THEN <<>>
        ELSE RedditLoop(resp.children, subreddit, t)

(***************************************************************************)
(* AINewsAgent: the scoring service (analyze_with_gemini).                 *)
(***************************************************************************)
\* Items of the "articles" array of a scoring response. A dict item is the
\* record d of its keys; a non-dict item (a string, a number) has none.
FullItem ==
    [kind |-> "dict",
     d |-> [index |-> 1, relevance_score |-> 85, category |-> "AI/ML",
            key_insights |-> <<"insight1", "insight2">>,
            importance_level |-> "high", summary |-> "Brief summary"]]
EmptyItem == [kind |-> "dict", d |-> <<>>]
OddItem == [kind |-> "dict", d |-> [relevance_score |-> 150, category |-> "Politics"]]
NonNumericItem == [kind |-> "dict", d |-> [relevance_score |-> NonNumeric]]
NonDictItem == [kind |-> "nondict"]
\* the item the service wrote for the second article of the batch
SecondItem ==
    [kind |-> "dict",
     d |-> [index |-> 2, relevance_score |-> 40, category |-> "Business",
            key_insights |-> <<"insight3">>,
            importance_level |-> "low", summary |-> "Other summary"]]

ItemPool == {FullItem, EmptyItem}

\* the item lists a response for a batch of n articles may carry: every
\* list of at most n usual items, one list longer than the batch, lists
\* with an unusual item, and one with the items of the first two articles
\* in the other order
ItemLists(n) ==
    SeqsUpTo(ItemPool, n)
    \cup { [j \in 1..(n + 1) |-> FullItem] }
    \cup { <<OddItem>>, <<EmptyItem, OddItem>>,
           <<NonDictItem>>, <<NonNumericItem>>, <<FullItem, NonDictItem>>,
           <<SecondItem, FullItem>> }

\* the JSON documents the generated text may hold
JsonDocs(n) ==
    { [kind |-> "garbage"], [kind |-> "array"],
      [kind |-> "object", articles |-> [kind |-> "missing"]],
      [kind |-> "object", articles |-> [kind |-> "null"]],
      [kind |-> "object", articles |-> [kind |-> "other"]] }
    \cup { [kind |-> "object", articles |-> [kind |-> "list", items |-> is]] :
               is \in ItemLists(n) }

\* What one POST to the scoring service may come to, for a batch of n.
\* status: "exception" (requests raised), an HTTP status otherwise.
\* body_json = FALSE: the 200 body is not JSON. candidates: how many.
\* fenced: the generated text is wrapped in ```json ... ``` fences.
GeminiResponses(n) ==
    { [status |-> "exception"], [status |-> "429"],
      [status |-> "200", body_json |-> FALSE],
      [status |-> "200", body_json |-> TRUE, candidates |-> 0] }
    \cup { [status |-> "200", body_json |-> TRUE, candidates |-> 1,
            fenced |-> f, doc |-> doc] : f \in BOOLEAN, doc \in JsonDocs(n) }

EmptyList == [kind |-> "list", items |-> <<>>]
PyNone == [kind |-> "null"]

\* generated_text.replace('```json', '').replace('```', '').strip()
StripFences(text) == [text EXCEPT !.fenced = FALSE]

\* json.loads: <<>> on JSONDecodeError, <<doc>> otherwise
JsonLoads(text) ==
    IF text.fenced \/ text.doc.kind = "garbage" THEN <<>> ELSE <<text.doc>>

\* analyze_with_gemini's return value
analyze_with_gemini(resp) ==
    IF resp.status = "exception" THEN EmptyList                  \* line 261
    ELSE IF resp.status # "200" THEN EmptyList                   \* line 256
    ELSE IF ~resp.body_json THEN EmptyList                       \* 239 raises
    ELSE IF resp.candidates = 0 THEN PyNone                      \* falls off 242
    ELSE LET generated_text == StripFences([fenced |-> resp.fenced, doc |-> resp.doc])
             parsed == JsonLoads(generated_text)
         IN  IF parsed = <<>> THEN EmptyList                     \* line 252
             ELSE LET analysis == parsed[1]
                  IN  IF analysis.kind # "object" THEN EmptyList \* 251 raises
                      ELSE IF analysis.articles.kind = "missing" THEN EmptyList
                      ELSE analysis.articles

(***************************************************************************)
(* AINewsAgent: analyze_articles.                                          *)
(***************************************************************************)
\* the dict of lines 287-293
AnalysisUpdate(analysis) ==
    [ relevance_score |-> Get(analysis, "relevance_score", DefaultScore),
      category |-> Get(analysis, "category", "Other"),
      key_insights |-> Get(analysis, "key_insights", <<>>),
      importance_level |-> Get(analysis, "importance_level", "medium"),
      ai_summary |-> Get(analysis, "summary", "") ]

\* the loop of lines 282-293 from its j-th iteration (0-based) on: the
\* articles after it, and whether analysis.get raised on a non-dict item
RECURSIVE MatchLoop(_, _, _, _, _)
MatchLoop(articles, i, batch_len, batch_analysis, j) ==
    IF j >= Len(batch_analysis) THEN [articles |-> articles, raised |-> FALSE]
    ELSE LET analysis == batch_analysis[j + 1]
             article_index == i + j
         IN  IF j < batch_len /\ article_index < Len(articles)
             THEN IF analysis.kind # "dict"
                  THEN [articles |-> articles, raised |-> TRUE]
                  ELSE MatchLoop(
                           [articles EXCEPT ![article_index + 1] =
                                Update(@, AnalysisUpdate(analysis.d))],
                           i, batch_len, batch_analysis, j + 1)
             ELSE MatchLoop(articles, i, batch_len, batch_analysis, j + 1)

\* the sort key of line 302: x.get('relevance_score', 0)
ScoreKey(x) == Get(x, "relevance_score", 0)

\* list.sort(key, reverse=True) is stable: equal keys keep their order.
RECURSIVE InsertByScore(_, _)
InsertByScore(a, sorted) ==
    IF sorted = <<>> THEN <<a>>
    ELSE IF ScoreKey(Head(sorted)) >= ScoreKey(a)
         THEN <<Head(sorted)>> \o InsertByScore(a, Tail(sorted))
         ELSE <<a>> \o sorted

RECURSIVE SortByScore(_)
SortByScore(articles) ==
    IF articles = <<>> THEN <<>>
    ELSE InsertByScore(articles[Len(articles)],
                       SortByScore(SubSeq(articles, 1, Len(articles) - 1)))

\* comparing or summing the keys raises TypeError (lines 302, 304)
KeysRaise(articles) == \E k \in DOMAIN articles : ScoreKey(articles[k]) = NonNumeric

(***************************************************************************)
(* AINewsAgent: generate_email_digest's selection (lines 311-315).         *)
(***************************************************************************)
MeetsMinScore(a) == Get(a, "relevance_score", 0) >= MinScore

\* the selection without the fallback of lines 314-315
SelectTop_NoFallback(articles) == Take(SelectSeq(articles, MeetsMinScore), TopLimit)

SelectTop(articles) ==
    LET top == Take(SelectSeq(articles, MeetsMinScore), TopLimit)
    IN  IF top = <<>> THEN Take(articles, FallbackLimit) ELSE top

(***************************************************************************)
(* AINewsAgent: the steps of run_daily_digest.                             *)
(***************************************************************************)
AgentStart ==
    /\ pc = "collect_rss"
    /\ feed_task = [s \in DOMAIN website_sources |-> "pending"]
    /\ results = [s \in DOMAIN website_sources |-> <<>>]
    /\ reddit_idx = 1
    /\ reddit_log = <<>>
    /\ collected_articles = <<>>
    /\ batch_i = 0
    /\ batch_log = <<>>
    /\ top_articles = <<>>
    /\ email_sent = "none"
    /\ saved = FALSE

\* what the feeds serve is not fixed beforehand: each fetch may come to
\* any of FeedResponses
AgentInit ==
    /\ AgentStart
    /\ feed_doc = [s \in DOMAIN website_sources |-> <<>>]

\* analysis started whatever was collected
AfterCollection_AlwaysAnalyze(articles) == "analyze"

\* what run_daily_digest does once both collectors have returned (499-506)
AfterCollection(articles) == IF articles = <<>> THEN "no_articles" ELSE "analyze"

\* a failed fetch that also drops what was collected so far
ExtendCollected_ResetOnFailure(collected, resp, articles) ==
    IF resp.status # "ok" THEN <<>> ELSE collected \o articles

\* a task that adds its first article ahead of the list and the others
\* behind it
ExtendCollected_Interleaved(collected, resp, articles) ==
    IF articles = <<>> THEN collected
    ELSE <<Head(articles)>> \o collected \o Tail(articles)

\* self.collected_articles.extend(articles), line 137; a task whose fetch
\* failed has returned at line 85 and extends nothing
ExtendCollected(collected, resp, articles) == collected \o articles

\* Lines 83-142 for the feed task s whose fetch came to resp. The gather
\* of line 75 is over when the last task is; collect_reddit_posts follows.
FeedTaskStep(s, resp) ==
    /\ pc = "collect_rss"
    /\ feed_task[s] = "pending"
    /\ LET articles == process_rss_feed(resp, website_sources[s], now)
       IN  /\ collected_articles' = ExtendCollected(collected_articles, resp, articles)
           /\ results' = [results EXCEPT ![s] = articles]
           /\ feed_task' = [feed_task EXCEPT ![s] =
                               IF resp.status = "ok" THEN "done" ELSE "failed"]
    /\ pc' = IF \A r \in DOMAIN feed_task : feed_task'[r] # "pending"
             THEN "collect_reddit" ELSE pc
    /\ UNCHANGED <<reddit_idx, batch_i, batch_log, top_articles, email_sent, saved>>
    /\ UNCHANGED <<botVars, now, feed_doc, reddit_log, wfVars>>

\* One feed task of the gather of line 75 resumes from its fetch and runs
\* to its end. The tasks resume in any order.
ProcessRssFeed(s) ==
    /\ pc = "collect_rss"
    /\ feed_task[s] = "pending"
    /\ \E resp \in FeedResponses :
          /\ Len(collected_articles)
               + Len(process_rss_feed(resp, website_sources[s], now)) <= MaxArticles
          /\ FeedTaskStep(s, resp)

\* The same task when what its URL serves is fixed beforehand.
ProcessServedFeed(s) ==
    /\ feed_doc[s] # <<>>
    /\ FeedTaskStep(s, feed_doc[s][1])

\* how the try block of lines 150-181 ends for one response: fetch_url gave
\* None ("none"), json.loads, data['data']['children'] or a post raised
\* ("raised"), or the listing was gone through ("ok")
RedditOutcome(resp) ==
    IF resp.status # "ok" THEN "none"
    ELSE IF ~resp.json_ok THEN "raised"
    ELSE IF \E k \in DOMAIN resp.children : resp.children[k].broken THEN "raised"
    ELSE "ok"

\* whether asyncio.sleep(1) of line 181 is reached: it is the last statement
\* of the try block, so an exception raised before it goes to line 183
RedditPaused(resp) == RedditOutcome(resp) # "raised"

\* One iteration of the loop of line 149: lines 150-185 for the next
\* subreddit of sources, whose listing is one of responses.
CollectRedditStep(sources, responses, cap) ==
    /\ pc = "collect_reddit"
    /\ reddit_idx <= Len(sources)
    /\ \E resp \in responses :
          LET appended == RedditAppended(resp, sources[reddit_idx], now)
          IN  /\ Len(collected_articles) + Len(appended) <= cap
              /\ collected_articles' = collected_articles \o appended
              /\ reddit_log' = Append(reddit_log, [outcome |-> RedditOutcome(resp),
                                                   paused |-> RedditPaused(resp)])
    /\ reddit_idx' = reddit_idx + 1
    /\ pc' = IF reddit_idx' > Len(sources)
             THEN AfterCollection(collected_articles') ELSE pc
    /\ UNCHANGED <<feed_task, results, batch_i, batch_log, top_articles, email_sent, saved>>
    /\ UNCHANGED <<botVars, now, feed_doc, wfVars>>

CollectRedditPosts == CollectRedditStep(reddit_sources, RedditResponses, MaxArticles)

\* whether the scoring call failed: raised, non-200, or no valid JSON
ScoringFailed(resp) ==
    \/ resp.status # "200"
    \/ ~resp.body_json
    \/ (resp.candidates > 0 /\ resp.doc.kind = "garbage")

\* a pause after every batch, the last one too
PauseAfter_Always(i, n) == TRUE

\* lines 298-299: whether the iteration that started at i, of a list of n
\* articles, ends with asyncio.sleep(2)
PauseAfter(i, n) == i + batch_size < n

\* One iteration of the loop of line 277: one scoring call (blocking) and
\* the matching of its answer, lines 278-299, with the pause that ends it
\* (nothing else runs during the pause); after the last batch the sort and
\* the average of lines 302-304 follow without a suspension. batch_log
\* records the call: the batch, the items answered, whether the iteration
\* reached its end and whether it paused there.
AnalyzeBatch ==
    /\ pc = "analyze"
    /\ LET i == batch_i
           last == IF i + batch_size < Len(collected_articles)
                   THEN i + batch_size ELSE Len(collected_articles)
           batch == SubSeq(collected_articles, i + 1, last)
       IN  \E resp \in GeminiResponses(Len(batch)) :
             LET batch_analysis == analyze_with_gemini(resp)
                 items == IF batch_analysis.kind = "list"
                          THEN batch_analysis.items ELSE <<>>
                 completed == /\ batch_analysis.kind = "list"
                              /\ ~MatchLoop(collected_articles, i, Len(batch),
                                            items, 0).raised
                 entry == [start |-> i, len |-> Len(batch),
                           failed |-> ScoringFailed(resp),
                           entries |-> Len(items), items |-> items,
                           paused |-> completed
                                      /\ PauseAfter(i, Len(collected_articles))]
             IN  /\ batch_log' = Append(batch_log, entry)
                 /\ IF batch_analysis.kind # "list"
                    THEN \* enumerate(batch_analysis) raises TypeError
                         /\ pc' = "raised"
                         /\ UNCHANGED <<collected_articles, batch_i>>
                    ELSE LET m == MatchLoop(collected_articles, i, Len(batch),
                                            batch_analysis.items, 0)
                         IN  IF m.raised
                             THEN /\ pc' = "raised"
                                  /\ collected_articles' = m.articles
                                  /\ UNCHANGED batch_i
                             ELSE IF i + batch_size < Len(collected_articles)
                             THEN /\ pc' = "analyze"
                                  /\ collected_articles' = m.articles
                                  /\ batch_i' = i + batch_size
                             ELSE IF KeysRaise(m.articles)
                             THEN /\ pc' = "raised"
                                  /\ collected_articles' = m.articles
                                  /\ UNCHANGED batch_i
                             ELSE /\ pc' = "digest"
                                  /\ collected_articles' = SortByScore(m.articles)
                                  /\ UNCHANGED batch_i
    /\ UNCHANGED <<feed_task, results, reddit_idx, top_articles, email_sent, saved>>
    /\ UNCHANGED <<botVars, now, feed_doc, reddit_log, wfVars>>

\* generate_email_digest: the selection of lines 311-315 (the HTML built
\* from it, lines 317-422, is presentation and is left out)
GenerateEmailDigest ==
    /\ pc = "digest"
    /\ top_articles' = SelectTop(collected_articles)
    /\ pc' = "email"
    /\ UNCHANGED <<feed_task, results, reddit_idx, collected_articles, batch_i, batch_log,
                   email_sent, saved>>
    /\ UNCHANGED <<botVars, now, feed_doc, reddit_log, wfVars>>

\* send_email: returns True, or False when SMTP raises (lines 448-450)
SendEmail ==
    /\ pc = "email"
    /\ \E ok \in BOOLEAN : email_sent' = IF ok THEN "ok" ELSE "failed"
    /\ pc' = "save"
    /\ UNCHANGED <<feed_task, results, reddit_idx, collected_articles, batch_i, batch_log,
                   top_articles, saved>>
    /\ UNCHANGED <<botVars, now, feed_doc, reddit_log, wfVars>>

\* save_data_for_dashboard, then the end of run_daily_digest
SaveDataForDashboard ==
    /\ pc = "save"
    /\ saved' = TRUE
    /\ pc' = "done"
    /\ UNCHANGED <<feed_task, results, reddit_idx, collected_articles, batch_i, batch_log,
                   top_articles, email_sent>>
    /\ UNCHANGED <<botVars, now, feed_doc, reddit_log, wfVars>>

Next ==
    \/ \E s \in DOMAIN website_sources : ProcessRssFeed(s)
    \/ CollectRedditPosts
    \/ AnalyzeBatch
    \/ GenerateEmailDigest
    \/ SendEmail
    \/ SaveDataForDashboard

(***************************************************************************)
(* AINewsTelegramBot: collect_news and analyze_articles_with_ai.           *)
(***************************************************************************)
\* self.news_sources: the display names, in list order (two of the eight)
news_sources == <<"TechCrunch", "WIRED">>

\* the handler instances that may be in flight at once
Handlers == {"h1", "h2"}

\* Entries a feed document may hold. broken: building the dict raises
\* (caught per source, lines 92-94).
BotEntries ==
    { [link |-> "u1", published |-> "Mon", summary_len |-> 900, broken |-> FALSE],
      [link |-> "u2", published |-> "Tue", summary_len |-> 40,  broken |-> TRUE] }

\* What one GET of a feed URL may come to.
BotFeedResponses ==
    { [status |-> s, entries |-> <<>>] : s \in {"exception", "http_error"} }
    \cup { [status |-> "ok", entries |-> es] : es \in SeqsUpTo(BotEntries, 1) }

\* the dict built at lines 82-89
BotArticle(entry, source, t) ==
    [ title |-> "title " \o entry.link,
      link |-> entry.link,
      summary |-> (IF entry.summary_len > 300 THEN 300 ELSE entry.summary_len) + 3,
      published |-> entry.published,
      source |-> source,
      timestamp |-> t ]

\* the loop of lines 81-90: the articles appended until the entries (the
\* first five) end or one raises
RECURSIVE BotEntryLoop(_, _, _)
BotEntryLoop(entries, source, t) ==
    IF entries = <<>> THEN <<>>
    ELSE IF Head(entries).broken THEN <<>>
    ELSE <<BotArticle(Head(entries), source, t)>> \o BotEntryLoop(Tail(entries), source, t)

\* what one source adds to collect_news' local list (lines 75-94)
BotSourceArticles(resp, source, t) ==
    IF resp.status = "ok" THEN BotEntryLoop(Take(resp.entries, 5), source, t) ELSE <<>>

\* the loop of line 74 from source k on, for the responses resps
RECURSIVE BotFetchAll(_, _, _)
BotFetchAll(resps, k, t) ==
    IF k > Len(news_sources) THEN <<>>
    ELSE BotSourceArticles(resps[k], news_sources[k], t) \o BotFetchAll(resps, k + 1, t)

\* What one POST to the scoring service may come to (one article a call).
\* Scores are in tenths: 70 is 7.0.
GoodAnalysis ==
    [relevance_score |-> 90, category |-> "AI/ML",
     key_points |-> <<"point1">>, sentiment |-> "positive"]
OddAnalysis == [relevance_score |-> 150, category |-> "Politics", title |-> "other title"]

AiResponses ==
    { [status |-> "exception"], [status |-> "500"],
      [status |-> "200", parsed |-> FALSE] }
    \cup { [status |-> "200", parsed |-> TRUE, ai_analysis |-> d] :
               d \in {GoodAnalysis, OddAnalysis} }

\* the fallback values of lines 154-157 and 161-164 (7.0)
BotFallback ==
    [relevance_score |-> 70, category |-> "General", key_points |-> <<>>,
     sentiment |-> "neutral"]

\* the values of lines 108-109 (7.5), set when there is no API key
NoKeyValues == [relevance_score |-> 75, category |-> "General"]

\* lines 115-164 for one article
AnalyzeOne(article, resp) ==
    IF resp.status = "exception" THEN Update(article, BotFallback)
    ELSE IF resp.status # "200" THEN Update(article, BotFallback)
    ELSE IF ~resp.parsed THEN Update(article, BotFallback)   \* 144-149 raise
    ELSE Update(article, resp.ai_analysis)

\* only the articles whose scoring call gave a parsed answer are returned
analyze_articles_with_ai_DropFailed(articles, key, resps) ==
    IF ~key THEN [k \in DOMAIN articles |-> Update(articles[k], NoKeyValues)]
    ELSE LET kept == SelectSeq([k \in DOMAIN articles |-> k],
                               LAMBDA k : resps[k].status = "200" /\ resps[k].parsed)
         IN  [j \in DOMAIN kept |-> AnalyzeOne(articles[kept[j]], resps[kept[j]])]

\* analyze_articles_with_ai's return value
analyze_articles_with_ai(articles, key, resps) ==
    IF ~key THEN [k \in DOMAIN articles |-> Update(articles[k], NoKeyValues)]
    ELSE [k \in DOMAIN articles |-> AnalyzeOne(articles[k], resps[k])]

(***************************************************************************)
(* AINewsTelegramBot: the cache check and the handlers.                    *)
(***************************************************************************)
CacheTTL == 1800

\* timedelta.seconds: the seconds field of the normalised (days, seconds)
TimedeltaSeconds(delta) == delta % OneDay

\* the condition with the 30 minutes compared to a count of seconds
NeedsUpdate_Minutes(cache, updated, t) ==
    \/ cache = <<>>
    \/ updated = <<>>
    \/ TimedeltaSeconds(t - updated[1]) > 30

\* the condition of lines 173-174 and 318-319
NeedsUpdate(cache, updated, t) ==
    \/ cache = <<>>
    \/ updated = <<>>
    \/ TimedeltaSeconds(t - updated[1]) > CacheTTL

\* sorted(self.articles_cache, key=..., reverse=True)[:5]
BotTopArticles(cache) == Take(SortByScore(cache), 5)

BotInit ==
    /\ articles_cache = <<>>
    /\ analysis_input = <<>>
    /\ last_update = <<>>
    /\ now = StartTime
    /\ hpc = [h \in Handlers |-> "idle"]
    /\ hkind = [h \in Handlers |-> "none"]
    /\ reply = [h \in Handlers |-> "none"]
    /\ ticks = 0

\* latest_news up to its first suspension: lines 170-214
LatestNews(h) ==
    /\ hpc[h] = "idle"
    /\ IF NeedsUpdate(articles_cache, last_update, now)
       THEN /\ hpc' = [hpc EXCEPT ![h] = "building"]
            /\ hkind' = [hkind EXCEPT ![h] = "latest"]
            /\ reply' = [reply EXCEPT ![h] = "fetching"]
       ELSE /\ reply' = [reply EXCEPT ![h] = "digest"]
            /\ UNCHANGED <<hpc, hkind>>
    /\ UNCHANGED <<articles_cache, analysis_input, last_update, has_api_key, ticks, now,
                   agentVars, wfVars>>

\* handle_latest_callback up to its first suspension: lines 316-348
HandleLatestCallback(h) ==
    /\ hpc[h] = "idle"
    /\ IF NeedsUpdate(articles_cache, last_update, now)
       THEN /\ hpc' = [hpc EXCEPT ![h] = "building"]
            /\ hkind' = [hkind EXCEPT ![h] = "latest_callback"]
            /\ reply' = [reply EXCEPT ![h] = "fetching"]
       ELSE /\ reply' = [reply EXCEPT ![h] = "digest"]
            /\ UNCHANGED <<hpc, hkind>>
    /\ UNCHANGED <<articles_cache, analysis_input, last_update, has_api_key, ticks, now,
                   agentVars, wfVars>>

\* handle_refresh_callback up to its first suspension: lines 380-383
HandleRefreshCallback(h) ==
    /\ hpc[h] = "idle"
    /\ hpc' = [hpc EXCEPT ![h] = "building"]
    /\ hkind' = [hkind EXCEPT ![h] = "refresh"]
    /\ reply' = [reply EXCEPT ![h] = "fetching"]
    /\ UNCHANGED <<articles_cache, analysis_input, last_update, has_api_key, ticks, now,
                   agentVars, wfVars>>

\* collect_news' value (lines 71-97): every list analyzed_articles it may
\* come to at time t, over the sources' and the scoring service's answers,
\* with the list articles of line 96 it came from
CollectNewsResults(t, key) ==
    UNION { LET articles == BotFetchAll(resps, 1, t)
            IN  { [articles |-> articles,
                   analyzed_articles |-> analyze_articles_with_ai(articles, key, ai)] :
                      ai \in [DOMAIN articles -> AiResponses] } :
            resps \in [DOMAIN news_sources -> BotFeedResponses] }

\* collect_news (lines 68-101) and what its caller does when it returns.
\* The awaits of the loop touch only the local list, so the fetches are
\* taken in one step with the scoring calls (blocking) and the assignments
\* of lines 98-99, which follow the last fetch without a suspension.
CollectNews(h) ==
    /\ hpc[h] = "building"
    /\ \E run \in CollectNewsResults(now, has_api_key) :
        LET analyzed_articles == run.analyzed_articles IN
          /\ analysis_input' = run.articles
          /\ articles_cache' = analyzed_articles
          /\ last_update' = <<now>>
          /\ IF hkind[h] = "latest"
             THEN \* lines 178-214
                  /\ reply' = [reply EXCEPT ![h] =
                        IF analyzed_articles = <<>> THEN "unable" ELSE "digest"]
                  /\ hpc' = [hpc EXCEPT ![h] = "idle"]
                  /\ hkind' = [hkind EXCEPT ![h] = "none"]
             ELSE IF hkind[h] = "latest_callback"
             THEN \* lines 323-348
                  /\ reply' = [reply EXCEPT ![h] = "digest"]
                  /\ hpc' = [hpc EXCEPT ![h] = "idle"]
                  /\ hkind' = [hkind EXCEPT ![h] = "none"]
             ELSE \* refresh: line 384 calls handle_latest_callback
                  IF NeedsUpdate(analyzed_articles, <<now>>, now)
                  THEN /\ reply' = [reply EXCEPT ![h] = "fetching"]
                       /\ hkind' = [hkind EXCEPT ![h] = "latest_callback"]
                       /\ UNCHANGED hpc
                  ELSE /\ reply' = [reply EXCEPT ![h] = "digest"]
                       /\ hpc' = [hpc EXCEPT ![h] = "idle"]
                       /\ hkind' = [hkind EXCEPT ![h] = "none"]
    /\ UNCHANGED <<has_api_key, ticks, now, agentVars, wfVars>>

\* the wall clock advances
TickDeltas == {600, 1801, 87000}

Tick ==
    /\ ticks < MaxTicks
    /\ \E d \in TickDeltas : now' = now + d
    /\ ticks' = ticks + 1
    /\ UNCHANGED <<articles_cache, analysis_input, last_update, hpc, hkind, reply, has_api_key,
                   agentVars, wfVars>>

BotNext ==
    \/ \E h \in Handlers : LatestNews(h)
    \/ \E h \in Handlers : HandleLatestCallback(h)
    \/ \E h \in Handlers : HandleRefreshCallback(h)
    \/ \E h \in Handlers : CollectNews(h)
    \/ Tick

(***************************************************************************)
(* AINewsAgent, the workflow variant (.github/workflows/ai_news_agent.py): *)
(* collection from the sources one after the other, one analysis of the    *)
(* whole list, the email, the save.                                        *)
(***************************************************************************)
wf_website_sources == <<"TechCrunch", "WIRED">>
wf_reddit_sources == <<"Reddit ML", "Reddit AI">>

WebsiteLimit == 5
SocialLimit == 3
CleanTextLimit == 500

WfLinks == <<"w1", "w2", "w3", "w4", "w5", "w6">>

\* feed entries: the link and the length of the cleaned summary
WfEntries ==
    { [link |-> "w1", summary_len |-> 120], [link |-> "w2", summary_len |-> 800] }

\* a document with more entries than either loop keeps
WfLongDocument == [k \in DOMAIN WfLinks |-> [link |-> WfLinks[k], summary_len |-> 120]]

\* What one GET may come to: an exception (the request, or reading the
\* body), a status other than 200, or a document.
WfResponses ==
    { [status |-> "exception", entries |-> <<>>], [status |-> "404", entries |-> <<>>] }
    \cup { [status |-> "200", entries |-> es] :
               es \in SeqsUpTo(WfEntries, 1) \cup {WfLongDocument} }

\* clean_text: text.strip()[:500], on the length
clean_text(len) == IF len > CleanTextLimit THEN CleanTextLimit ELSE len

\* the dict of lines 72-79 and 110-117
WfArticle(entry, source_name, content_type) ==
    [ title |-> "title " \o entry.link,
      url |-> entry.link,
      description |-> clean_text(entry.summary_len),
      source |-> source_name,
      content_type |-> content_type ]

\* what one source adds to articles: the first limit entries of a 200
\* response, nothing otherwise
WfFetched(resp, source_name, content_type, limit) ==
    IF resp.status # "200" THEN <<>>
    ELSE LET kept == Take(resp.entries, limit)
         IN  [k \in DOMAIN kept |-> WfArticle(kept[k], source_name, content_type)]

\* whether the sleep after the try block (lines 87 and 124) is reached: the
\* handler of lines 82-84 and 120-122 ends with continue
WfPaused(resp) == resp.status # "exception"

WorkflowStart ==
    /\ wf_pc = "websites"
    /\ wf_idx = 1
    /\ wf_articles = <<>>
    /\ wf_log = <<>>
    /\ wf_analysis = "none"
    /\ wf_email = "none"
    /\ wf_saved = FALSE

\* One iteration of the loop of line 63.
CollectFromWebsites ==
    /\ wf_pc = "websites"
    /\ \E resp \in WfResponses :
          /\ wf_articles' = wf_articles \o
                 WfFetched(resp, wf_website_sources[wf_idx], "website", WebsiteLimit)
          /\ wf_log' = Append(wf_log, [loop |-> "websites", status |-> resp.status,
                                       paused |-> WfPaused(resp)])
    /\ IF wf_idx < Len(wf_website_sources)
       THEN wf_idx' = wf_idx + 1 /\ wf_pc' = wf_pc
       ELSE wf_idx' = 1 /\ wf_pc' = "social"
    /\ UNCHANGED <<wf_analysis, wf_email, wf_saved>>
    /\ UNCHANGED <<agentVars, botVars, now>>

\* One iteration of the loop of line 102; after the last one, lines 400-405
\* of run: the return when nothing was collected.
CollectSocialMedia ==
    /\ wf_pc = "social"
    /\ \E resp \in WfResponses :
          /\ wf_articles' = wf_articles \o
                 WfFetched(resp, wf_reddit_sources[wf_idx], "social", SocialLimit)
          /\ wf_log' = Append(wf_log, [loop |-> "social", status |-> resp.status,
                                       paused |-> WfPaused(resp)])
    /\ IF wf_idx < Len(wf_reddit_sources)
       THEN wf_idx' = wf_idx + 1 /\ wf_pc' = wf_pc
       ELSE /\ wf_idx' = 1
            /\ wf_pc' = IF wf_articles' = <<>> THEN "no_articles" ELSE "analyze"
    /\ UNCHANGED <<wf_analysis, wf_email, wf_saved>>
    /\ UNCHANGED <<agentVars, botVars, now>>

\* What analyze_with_ai returns: the parsed response when it is a JSON
\* object ("parsed") or any other JSON value ("nondict"), the dict of lines
\* 209-215 when it is not JSON ("fallback"), the dict of lines 221-227 when
\* the call raised ("unavailable").
WfAnalyses == {"parsed", "nondict", "fallback", "unavailable"}

\* analyze_with_ai (line 409), which catches everything
AnalyzeWithAi ==
    /\ wf_pc = "analyze"
    /\ wf_analysis' \in WfAnalyses
    /\ wf_pc' = "generate"
    /\ UNCHANGED <<wf_idx, wf_articles, wf_log, wf_email, wf_saved>>
    /\ UNCHANGED <<agentVars, botVars, now>>

\* generate_email_content (line 414): analysis.get of line 278 raises on a
\* value that is not a dict, and run re-raises (lines 426-428)
GenerateEmailContent ==
    /\ wf_pc = "generate"
    /\ wf_pc' = IF wf_analysis = "nondict" THEN "raised" ELSE "email"
    /\ UNCHANGED <<wf_idx, wf_articles, wf_log, wf_analysis, wf_email, wf_saved>>
    /\ UNCHANGED <<agentVars, botVars, now>>

\* send_email (line 418): a failure is printed and raised again (line 359),
\* and run's handler raises it in turn (lines 426-428)
WorkflowSendEmail ==
    /\ wf_pc = "email"
    /\ \E delivered \in BOOLEAN :
          /\ wf_email' = IF delivered THEN "ok" ELSE "failed"
          /\ wf_pc' = IF delivered THEN "save" ELSE "raised"
    /\ UNCHANGED <<wf_idx, wf_articles, wf_log, wf_analysis, wf_saved>>
    /\ UNCHANGED <<agentVars, botVars, now>>

\* save_data (line 422)
SaveData ==
    /\ wf_pc = "save"
    /\ wf_saved' = TRUE
    /\ wf_pc' = "done"
    /\ UNCHANGED <<wf_idx, wf_articles, wf_log, wf_analysis, wf_email>>
    /\ UNCHANGED <<agentVars, botVars, now>>

WorkflowNext ==
    \/ CollectFromWebsites
    \/ CollectSocialMedia
    \/ AnalyzeWithAi
    \/ GenerateEmailContent
    \/ WorkflowSendEmail
    \/ SaveData

(***************************************************************************)
(* Specifications.                                                         *)
(***************************************************************************)
\* run_daily_digest, started with the API key set (line 19)
Init == AgentInit /\ BotInit /\ has_api_key = TRUE /\ WorkflowStart

Spec == Init /\ [][Next]_vars

\* the bot's handlers, with GEMINI_API_KEY set or not (line 24)
InitBot == AgentInit /\ BotInit /\ has_api_key \in BOOLEAN /\ WorkflowStart

BotSpec == InitBot /\ [][BotNext]_vars

\* collect_rss_feeds when the first feed serves a document of up to
\* MaxFeedLen entries and the second one of at most one entry
FeedInit ==
    /\ AgentStart
    /\ \E long \in LongFeedResponses, short \in ShortFeedResponses :
          feed_doc = [s \in DOMAIN website_sources |->
                         IF s = 1 THEN <<long>> ELSE <<short>>]
    /\ BotInit
    /\ has_api_key = TRUE
    /\ WorkflowStart

FeedNext == \E s \in DOMAIN website_sources : ProcessServedFeed(s)

FeedSpec == FeedInit /\ [][FeedNext]_vars

\* The lists analyze_articles starts from in BatchSpec: one full batch, one
\* article more, two full batches, and one article more again. The first
\* feed gave its ten entries, the second the rest.
BatchLens == {batch_size, batch_size + 1, 2 * batch_size, 2 * batch_size + 1}

BatchLinks == <<"a1", "a2", "a3", "a4", "a5", "a6", "a7", "a8", "a9", "a10", "a11">>

BatchArticle(k) ==
    RssArticle([link |-> BatchLinks[k], pub |-> <<Late>>, desc_len |-> 120, broken |-> FALSE],
               website_sources[IF k <= FeedLimit THEN 1 ELSE 2], StartTime)

BatchInputs == { [k \in 1..n |-> BatchArticle(k)] : n \in BatchLens }

\* run_daily_digest when collection is over (line 502) with such a list
BatchInit ==
    /\ collected_articles \in BatchInputs
    /\ pc = AfterCollection(collected_articles)
    /\ feed_doc = [s \in DOMAIN website_sources |-> <<>>]
    /\ feed_task = [s \in DOMAIN website_sources |-> "done"]
    /\ results = [s \in DOMAIN website_sources |->
                     SelectSeq(collected_articles,
                               LAMBDA a : a.source = website_sources[s])]
    /\ reddit_idx = Len(reddit_sources) + 1
    /\ reddit_log = [k \in DOMAIN reddit_sources |-> [outcome |-> "none", paused |-> TRUE]]
    /\ batch_i = 0
    /\ batch_log = <<>>
    /\ top_articles = <<>>
    /\ email_sent = "none"
    /\ saved = FALSE
    /\ BotInit
    /\ has_api_key = TRUE
    /\ WorkflowStart

BatchNext ==
    \/ AnalyzeBatch
    \/ GenerateEmailDigest

BatchSpec == BatchInit /\ [][BatchNext]_vars

\* collect_reddit_posts over two subreddits when the feeds gave nothing.
\* The listings: the request failures, the short listings of RedditPosts,
\* and listings of RedditLimit to MaxListing posts that all qualify (a hot
\* listing carries the stickied posts on top of the limit asked for).
RedditCommunities == <<"artificial", "MachineLearning">>

RedditLimit == 5

MaxListing == 6

HotLinks == <<"/r/h1", "/r/h2", "/r/h3", "/r/h4", "/r/h5", "/r/h6", "/r/h7", "/r/h8">>

HotPost(n) ==
    [permalink |-> HotLinks[n], created_utc |-> Late, score |-> 100,
     selftext_len |-> 0, broken |-> FALSE]

RedditListings ==
    { r \in RedditResponses : Len(r.children) <= 2 }
    \cup { [status |-> "ok", json_ok |-> TRUE, children |-> [k \in 1..n |-> HotPost(k)]] :
               n \in RedditLimit..MaxListing }

RedditInit ==
    /\ pc = "collect_reddit"
    /\ feed_doc = [s \in DOMAIN website_sources |-> <<>>]
    /\ feed_task = [s \in DOMAIN website_sources |-> "done"]
    /\ results = [s \in DOMAIN website_sources |-> <<>>]
    /\ reddit_idx = 1
    /\ reddit_log = <<>>
    /\ collected_articles = <<>>
    /\ batch_i = 0
    /\ batch_log = <<>>
    /\ top_articles = <<>>
    /\ email_sent = "none"
    /\ saved = FALSE
    /\ BotInit
    /\ has_api_key = TRUE
    /\ WorkflowStart

CollectSubreddits ==
    CollectRedditStep(RedditCommunities, RedditListings, Len(RedditCommunities) * MaxListing)

RedditNext == CollectSubreddits

RedditSpec == RedditInit /\ [][RedditNext]_vars

\* the workflow variant's run
WorkflowInit == AgentInit /\ BotInit /\ has_api_key = TRUE /\ WorkflowStart

WorkflowSpec == WorkflowInit /\ [][WorkflowNext]_vars

\* The two enrichment routines, each on its own: analyze_articles from the
\* list of BatchInit that takes a full batch and a batch of one (the bot is
\* idle), or collect_news' call of analyze_articles_with_ai for a /latest
\* request that found the cache empty (the agent has not started), with
\* the API key set or not.
BotBuilding ==
    /\ articles_cache = <<>>
    /\ analysis_input = <<>>
    /\ last_update = <<>>
    /\ now = StartTime
    /\ hpc = [h \in Handlers |-> IF h = "h1" THEN "building" ELSE "idle"]
    /\ hkind = [h \in Handlers |-> IF h = "h1" THEN "latest" ELSE "none"]
    /\ reply = [h \in Handlers |-> IF h = "h1" THEN "fetching" ELSE "none"]
    /\ ticks = 0

EnrichInit ==
    \/ BatchInit /\ Len(collected_articles) = batch_size + 1
    \/ AgentInit /\ BotBuilding /\ has_api_key \in BOOLEAN /\ WorkflowStart

EnrichNext ==
    \/ AnalyzeBatch
    \/ \E h \in Handlers : CollectNews(h)

EnrichSpec == EnrichInit /\ [][EnrichNext]_vars

(***************************************************************************)
(* Properties of run_daily_digest (checked under Spec).                    *)
(***************************************************************************)
Collecting == pc \in {"collect_rss", "collect_reddit"}

\* collection is over and analyze_articles has not made a scoring call
Collected == pc \in {"analyze", "no_articles"} /\ batch_log = <<>>

\* analyze_articles has returned
Enriched == pc \in {"digest", "email", "save", "done"}

\* seq occurs in whole, in order and contiguously, in list
OccursIn(seq, list) ==
    \E k \in 0..(Len(list) - Len(seq)) : SubSeq(list, k + 1, k + Len(seq)) = seq

\* C1: once collection is over, no two articles of collected_articles have
\* the same (source, url) pair.
C1_NoDuplicateSourceUrl ==
    ~Collecting =>
        \A i, j \in DOMAIN collected_articles :
            i # j => \/ collected_articles[i].source # collected_articles[j].source
                     \/ collected_articles[i].url # collected_articles[j].url

\* C2: collection never raises, and whatever the other sources did (failed
\* fetch, non-200, timeout, unparseable body), the list that a feed returned
\* is in collected_articles, whole and in order.
C2_FailureIsolated ==
    /\ pc = "raised" => batch_log # <<>>
    /\ (Collecting \/ Collected) =>
          \A s \in DOMAIN website_sources :
              feed_task[s] = "done" => OccursIn(results[s], collected_articles)

C2_Witness ==
    /\ Collected
    /\ \E f, s \in DOMAIN website_sources :
          /\ feed_task[f] = "failed"
          /\ feed_task[s] = "done"
          /\ Len(results[s]) >= 2
    /\ \E k \in DOMAIN collected_articles : collected_articles[k].type = "reddit"

\* the fallback enrichment values: none absent, score the fixed default,
\* category Other, no key points
HasFallbackValues(a) ==
    /\ {"relevance_score", "category", "key_insights", "importance_level"} \subseteq DOMAIN a
    /\ a.relevance_score = DefaultScore
    /\ a.category = "Other"
    /\ a.key_insights = <<>>
    /\ a.importance_level = "medium"

\* C3: after enrichment, when every scoring call failed (raised, non-200 or
\* invalid JSON), every article carries the fallback values.
C3_FailedBatchGetsFallback ==
    (Enriched /\ \A b \in DOMAIN batch_log : batch_log[b].failed) =>
        \A k \in DOMAIN collected_articles : HasFallbackValues(collected_articles[k])

\* C4: analyze_articles never raises, whatever the scoring service answers.
C4_AnalysisNeverRaises == pc # "raised"

\* C5: the ranked list is non-increasing in relevance_score and, among
\* equal scores, the later published article comes first.
C5_ScoreThenPublished ==
    Enriched =>
        \A i, j \in DOMAIN collected_articles :
            i < j => \/ ScoreKey(collected_articles[i]) > ScoreKey(collected_articles[j])
                     \/ /\ ScoreKey(collected_articles[i]) = ScoreKey(collected_articles[j])
                        /\ collected_articles[i].published >= collected_articles[j].published

\* C6: the digest selection of a non-empty enriched list is non-empty.
C6_SelectionNonEmpty ==
    (pc \in {"email", "save", "done"} /\ collected_articles # <<>>) => top_articles # <<>>

C6_Witness ==
    /\ pc = "email"
    /\ collected_articles # <<>>
    /\ \A k \in DOMAIN collected_articles : ~MeetsMinScore(collected_articles[k])
    /\ top_articles = collected_articles

\* C10: after enrichment, when no scoring call failed and one was answered
\* with fewer entries than its batch has articles, every article has the
\* enrichment fields all the same.
C10_MissingEntriesGetFallback ==
    ( /\ Enriched
      /\ \A b \in DOMAIN batch_log : ~batch_log[b].failed
      /\ \E b \in DOMAIN batch_log : batch_log[b].entries < batch_log[b].len ) =>
        \A k \in DOMAIN collected_articles :
            {"relevance_score", "category", "key_insights"} \subseteq DOMAIN collected_articles[k]

\* the position of a feed's display name in website_sources
SourceIndex(name) == CHOOSE s \in DOMAIN website_sources : website_sources[s] = name

\* the urls of a list of articles
Urls(list) == { list[k].url : k \in DOMAIN list }

\* C13: when two different feeds, neither repeating a URL of its own, both
\* return an article with the same URL, the collected list holds that URL
\* once.
C13_SharedUrlCollectedOnce ==
    Collected =>
        \A a, b \in DOMAIN website_sources :
            ( /\ a # b
              /\ feed_task[a] = "done" /\ Cardinality(Urls(results[a])) = Len(results[a])
              /\ feed_task[b] = "done" /\ Cardinality(Urls(results[b])) = Len(results[b]) ) =>
                \A u \in Urls(results[a]) \cap Urls(results[b]) :
                    Cardinality({k \in DOMAIN collected_articles :
                                     collected_articles[k].url = u}) = 1

\* C14: in the merged list, an article of an earlier-listed feed never comes
\* after an article of a later-listed feed, whatever order the fetches
\* completed in.
C14_MergeFollowsSourceOrder ==
    (Collecting \/ Collected) =>
        \A i, j \in DOMAIN collected_articles :
            ( /\ i < j
              /\ collected_articles[i].type = "rss"
              /\ collected_articles[j].type = "rss" ) =>
                SourceIndex(collected_articles[i].source)
                    <= SourceIndex(collected_articles[j].source)

\* the articles of list that came from the source called name, in order
BySource(list, name) == SelectSeq(list, LAMBDA a : a.source = name)

\* The orders in which the articles of list (with the scores they carry)
\* arrive over the completion orders of the feed fetches: the feeds' blocks
\* in either order, then the aggregator's posts.
ArrivalOrders(list) ==
    { BySource(list, website_sources[pq[1]]) \o BySource(list, website_sources[pq[2]])
          \o SelectSeq(list, LAMBDA a : a.type = "reddit") :
      pq \in { x \in (DOMAIN website_sources) \X (DOMAIN website_sources) : x[1] # x[2] } }

\* C15: the ranked list of a run is the one every completion order of the
\* feed fetches gives for the same articles with the same scores.
C15_RankingIgnoresArrival ==
    Enriched =>
        \A arrival \in ArrivalOrders(collected_articles) :
            SortByScore(arrival) = collected_articles

\* C12: after enrichment, every relevance_score that an article carries lies
\* in 0..100.
C12_ScoreInRange ==
    Enriched =>
        \A k \in DOMAIN collected_articles :
            "relevance_score" \in DOMAIN collected_articles[k] =>
                /\ collected_articles[k].relevance_score >= 0
                /\ collected_articles[k].relevance_score <= 100

\* the category set the design declares
Categories ==
    {"AI/ML", "Technology", "Business", "Science", "Startups", "Programming", "Other"}

\* C16: after enrichment, every category that an article carries is one of
\* the seven declared categories.
C16_CategoryInClosedSet ==
    Enriched =>
        \A k \in DOMAIN collected_articles :
            "category" \in DOMAIN collected_articles[k] =>
                collected_articles[k].category \in Categories

(***************************************************************************)
(* Properties of the bot's cache (checked under BotSpec).                  *)
(***************************************************************************)
\* a digest request without forced refresh is taken by handler instance h
DigestRequest(h) == LatestNews(h) \/ HandleLatestCallback(h)

\* the request falls within the TTL window of the last build
WithinTTL ==
    /\ last_update # <<>>
    /\ now - last_update[1] >= 0
    /\ now - last_update[1] <= CacheTTL

\* more than the TTL has passed since the last build
TTLExpired == last_update # <<>> /\ now - last_update[1] > CacheTTL

\* C7 as stated: a digest request within the TTL window of the last build
\* triggers no rebuild and leaves the cache and last_update as they are.
C7_NoRebuildWithinTTL ==
    [][\A h \in Handlers :
          (DigestRequest(h) /\ WithinTTL) =>
              (hpc'[h] = "idle" /\ UNCHANGED <<articles_cache, last_update>>)]_vars

\* C7 as amended: a digest request within the TTL window of the last build,
\* made while the cache holds articles, triggers no rebuild and leaves the
\* cache and last_update as they are.
C7_NoRebuildWithinTTLNonEmpty ==
    [][\A h \in Handlers :
          (DigestRequest(h) /\ WithinTTL /\ articles_cache # <<>>) =>
              (hpc'[h] = "idle" /\ UNCHANGED <<articles_cache, last_update>>)]_vars

\* a second request within the window was answered from the cache while
\* the other handler instance was idle too
C7_Witness ==
    /\ articles_cache # <<>>
    /\ WithinTTL
    /\ now > last_update[1]
    /\ \A h \in Handlers : hpc[h] = "idle" /\ reply[h] = "digest"

\* C8: a digest request made more than the TTL after the last build
\* triggers a rebuild.
C8_RebuildAfterTTL ==
    [][\A h \in Handlers :
          (DigestRequest(h) /\ TTLExpired) => hpc'[h] = "building"]_vars

\* C9: a rebuild never replaces a cache that holds articles by an empty one.
C9_GoodDigestKept ==
    [][\A h \in Handlers :
          (CollectNews(h) /\ articles_cache # <<>>) => articles_cache' # <<>>]_vars

\* C11: at most one handler instance is between the start and the end of a
\* collect_news run (a rebuild) at any time.
C11_SingleRebuild == Cardinality({h \in Handlers : hpc[h] = "building"}) <= 1

\* the fields of an article that collect_news sets before enrichment
BotRawFields == {"title", "link", "source", "summary", "published"}

\* C19: every article of the cache has the raw fields (title, link, source,
\* summary, published) that collect_news built from a feed entry.
C19_RawFieldsUnchanged ==
    \A k \in DOMAIN articles_cache :
        \E e \in BotEntries, s \in DOMAIN news_sources :
            \A f \in BotRawFields :
                articles_cache[k][f] = BotArticle(e, news_sources[s], now)[f]

(***************************************************************************)
(* Properties of analyze_articles' batches (checked under BatchSpec).      *)
(***************************************************************************)
\* the places of a response's items that carry index k
ItemsWithIndex(items, k) ==
    { j \in DOMAIN items : /\ items[j].kind = "dict"
                           /\ "index" \in DOMAIN items[j].d
                           /\ items[j].d.index = k }

\* every item of the response is an object that carries an index
AllIndexed(items) ==
    \A j \in DOMAIN items : items[j].kind = "dict" /\ "index" \in DOMAIN items[j].d

\* C17: when a batch is answered with items that all carry an index and
\* another batch follows, the k-th article of the batch is updated from an
\* item carrying index k, and an article with no such item (of that batch
\* or of another) is left as it was.
C17_ItemAppliedByIndex ==
    [][(pc = "analyze" /\ pc' = "analyze"
            /\ AllIndexed(batch_log'[Len(batch_log')].items)) =>
          LET call == batch_log'[Len(batch_log')]
          IN  \A k \in DOMAIN collected_articles :
                LET pos == k - call.start
                    answers == IF pos \in 1..call.len
                               THEN ItemsWithIndex(call.items, pos) ELSE {}
                IN  IF answers = {}
                    THEN collected_articles'[k] = collected_articles[k]
                    ELSE \E j \in answers :
                            collected_articles'[k] =
                                Update(collected_articles[k],
                                       AnalysisUpdate(call.items[j].d))]_vars

\* C18: the scoring calls made so far cover the list in order, in
\* consecutive batches of batch_size (the last one may be shorter); a pause
\* ended every call but the latest, and no pause follows the batch that
\* ends the list; when analyze_articles has returned, the batches cover the
\* whole list.
C18_BatchesInSequence ==
    /\ \A b \in DOMAIN batch_log :
          /\ batch_log[b].start = (b - 1) * batch_size
          /\ batch_log[b].len >= 1
          /\ batch_log[b].len <= batch_size
          /\ batch_log[b].start + batch_log[b].len <= Len(collected_articles)
          /\ (batch_log[b].len < batch_size =>
                 batch_log[b].start + batch_log[b].len = Len(collected_articles))
          /\ (b < Len(batch_log) => batch_log[b].paused)
          /\ (batch_log[b].paused =>
                 batch_log[b].start + batch_log[b].len < Len(collected_articles))
    /\ Enriched =>
          LET last == batch_log[Len(batch_log)]
          IN  last.start + last.len = Len(collected_articles)

\* two full batches: a pause after the first call, none after the second
C18_Witness ==
    /\ pc = "digest"
    /\ Len(collected_articles) = 2 * batch_size
    /\ Len(batch_log) = 2
    /\ batch_log[1].paused
    /\ ~batch_log[2].paused

(***************************************************************************)
(* Properties of process_rss_feed (checked under FeedSpec).                *)
(***************************************************************************)
\* the entry has a parseable publication time older than the cutoff
OlderThanCutoff(entry, t) == entry.pub # <<>> /\ entry.pub[1] < t - OneDay

\* the list that keeps, of the entries kept, url and published value
UrlAndPublished(entries, t) ==
    [k \in DOMAIN entries |->
        [url |-> entries[k].link,
         published |-> IF entries[k].pub = <<>> THEN t ELSE entries[k].pub[1]]]

\* url and published value of the articles a feed task returned
Returned(s) ==
    [k \in DOMAIN results[s] |->
        [url |-> results[s][k].url, published |-> results[s][k].published]]

\* C20 as stated: a feed task returns, in document order, the entries among
\* the first ten that have no parseable publication time older than the
\* cutoff, those without a parseable time with the collection time as
\* published value.
C20_FirstTenNotOld ==
    \A s \in DOMAIN website_sources :
        (feed_task[s] = "done" /\ feed_doc[s] # <<>>) =>
            Returned(s) =
                UrlAndPublished(
                    SelectSeq(Take(feed_doc[s][1].entries, FeedLimit),
                              LAMBDA e : ~OlderThanCutoff(e, now)),
                    now)

\* C20 as amended: a feed task returns, in document order, the entries among
\* the first ten that have no parseable publication time older than the
\* cutoff and whose processing does not raise, those without a parseable
\* time with the collection time as published value.
C20_FirstTenNotOldNotRaising ==
    \A s \in DOMAIN website_sources :
        (feed_task[s] = "done" /\ feed_doc[s] # <<>>) =>
            Returned(s) =
                UrlAndPublished(
                    SelectSeq(Take(feed_doc[s][1].entries, FeedLimit),
                              LAMBDA e : ~OlderThanCutoff(e, now) /\ ~e.broken),
                    now)

\* a document of more than ten entries whose eleventh would be kept, with
\* an old entry dropped and an entry without a date kept among the ten
C20_Witness ==
    /\ feed_task[1] = "done"
    /\ feed_doc[1] # <<>>
    /\ LET doc == feed_doc[1][1].entries
       IN  /\ Len(doc) > FeedLimit
           /\ ~OlderThanCutoff(doc[FeedLimit + 1], now)
           /\ ~doc[FeedLimit + 1].broken
           /\ \E j \in 1..FeedLimit : OlderThanCutoff(doc[j], now)
           /\ \E j \in 1..FeedLimit : doc[j].pub = <<>> /\ ~doc[j].broken
           /\ results[1] # <<>>
           /\ \A k \in DOMAIN results[1] : results[1][k].published = now

(***************************************************************************)
(* Further properties of run_daily_digest (checked under Spec).            *)
(***************************************************************************)
\* C22: every collected article's description, the truncation marker
\* included, is at most 500 characters long.
C22_DescriptionWithinLimit ==
    \A k \in DOMAIN collected_articles :
        collected_articles[k].description <= DescLimit

\* C27: the aggregator is fetched after every feed task has ended, scoring
\* calls are made after collection, the selection and the email after
\* scoring, the save after the email; when collection ends with no article
\* the run ends there, with no scoring call, email or save, and not by an
\* exception.
C27_StepsInOrder ==
    /\ reddit_idx > 1 => \A s \in DOMAIN website_sources : feed_task[s] # "pending"
    /\ batch_log # <<>> => (~Collecting /\ reddit_idx > Len(reddit_sources))
    /\ top_articles # <<>> => (batch_log # <<>> /\ pc \in {"email", "save", "done"})
    /\ email_sent # "none" => (batch_log # <<>> /\ pc \in {"save", "done"})
    /\ saved => (email_sent # "none" /\ pc = "done")
    /\ pc = "done" => saved
    /\ (~Collecting /\ collected_articles = <<>>) =>
          /\ pc = "no_articles"
          /\ batch_log = <<>>
          /\ top_articles = <<>>
          /\ email_sent = "none"
          /\ ~saved
    /\ pc = "no_articles" => collected_articles = <<>>

\* every source answered and none gave an article: the run has ended
C27_Witness ==
    /\ pc = "no_articles"
    /\ \A s \in DOMAIN website_sources : feed_task[s] = "done"
    /\ reddit_idx > Len(reddit_sources)

\* C30: while and after the feeds are collected, the articles of a feed
\* that has ended are one contiguous block of collected_articles, in the
\* order the feed returned them, and a feed that failed has none.
C30_FeedBlocksContiguous ==
    (Collecting \/ Collected) =>
        \A s \in DOMAIN website_sources :
            /\ feed_task[s] = "done" =>
                  /\ BySource(collected_articles, website_sources[s]) = results[s]
                  /\ OccursIn(results[s], collected_articles)
            /\ feed_task[s] # "done" =>
                  BySource(collected_articles, website_sources[s]) = <<>>

\* the later-listed feed ended first with two articles, the other followed
C30_Witness ==
    /\ pc = "collect_reddit"
    /\ \A s \in DOMAIN website_sources : feed_task[s] = "done"
    /\ Len(results[1]) >= 1
    /\ Len(results[2]) >= 2
    /\ collected_articles[1].source = website_sources[2]

(***************************************************************************)
(* Further properties of the bot (checked under BotSpec).                  *)
(***************************************************************************)
\* C29: when the collect_news run that handle_refresh_callback started
\* returns, the handler starts no other one.
C29_RefreshCollectsOnce ==
    [][\A h \in Handlers :
          (CollectNews(h) /\ hkind[h] = "refresh") => hpc'[h] = "idle"]_vars

(***************************************************************************)
(* Properties of the digest selection (checked under BatchSpec).           *)
(***************************************************************************)
\* the reference: the articles scored min_score or more, or all of them if
\* there is none; by descending score; the first limit of them
ReferenceSelection(articles, min_score, limit) ==
    LET kept == SelectSeq(articles, LAMBDA a : Get(a, "relevance_score", 0) >= min_score)
        pool == IF kept = <<>> THEN articles ELSE kept
    IN  Take(SortByScore(pool), limit)

\* C23: the digest selection is the reference selection with min_score 60
\* and limit 15.
C23_SelectionMatchesReference ==
    pc \in {"email", "save", "done"} =>
        top_articles = ReferenceSelection(collected_articles, MinScore, TopLimit)

(***************************************************************************)
(* Properties of the fields an applied scoring response leaves behind      *)
(* (checked under BotSpec).                                                *)
(***************************************************************************)
\* the fields the bot's prompt asks for (lines 125-128) and its fallback sets
BotEnrichmentFields == {"relevance_score", "category", "key_points", "sentiment"}

\* C25: an article that went through the scoring loop has every enrichment
\* field defined, a field the response left out included.
C25_MissingFieldsDefaulted ==
    has_api_key =>
        \A k \in DOMAIN articles_cache :
            BotEnrichmentFields \subseteq DOMAIN articles_cache[k]

(***************************************************************************)
(* Properties of collect_reddit_posts (checked under RedditSpec).          *)
(***************************************************************************)
\* the articles of collected_articles that came from a subreddit
FromSubreddit(subreddit) ==
    SelectSeq(collected_articles,
              LAMBDA a : a.type = "reddit" /\ a.source = "r/" \o subreddit)

\* C21: a subreddit contributes at most 5 articles, each with a score of 50
\* or more and created within the 24 hours before collection.
C21_AtMostFivePerCommunity ==
    \A c \in DOMAIN RedditCommunities :
        LET posts == FromSubreddit(RedditCommunities[c])
        IN  /\ Len(posts) <= RedditLimit
            /\ \A k \in DOMAIN posts :
                  /\ posts[k].score >= RedditMinScore
                  /\ posts[k].published >= now - OneDay

\* C24: every request that was followed by another one was followed by the
\* rate-limit pause first, whatever became of it.
C24_PauseBetweenRequests ==
    \A k \in DOMAIN reddit_log : k < Len(reddit_log) => reddit_log[k].paused

(***************************************************************************)
(* Properties of the save step (checked under WorkflowSpec).               *)
(***************************************************************************)
\* run has ended, by returning or by raising
WorkflowEnded == wf_pc \in {"done", "raised", "no_articles"}

\* C28: a run that collected at least one article and whose email could not
\* be sent has saved the dashboard data by the time it ends.
C28_SavedDespiteEmailFailure ==
    (WorkflowEnded /\ wf_articles # <<>> /\ wf_email = "failed") => wf_saved

(***************************************************************************)
(* Properties of the two enrichment routines (checked under EnrichSpec).   *)
(***************************************************************************)
\* the five fields analyze_articles sets (lines 288-292)
AgentEnrichmentFields ==
    {"relevance_score", "category", "key_insights", "importance_level", "ai_summary"}

\* an article of the digest agent as collection built it
WithoutEnrichment(a) == [f \in DOMAIN a \ AgentEnrichmentFields |-> a[f]]

\* how many articles of list are the article a, enrichment aside
Occurrences(a, list) ==
    Cardinality({k \in DOMAIN list : WithoutEnrichment(list[k]) = WithoutEnrichment(a)})

\* after is a permutation of before, enrichment aside
SameArticles(before, after) ==
    /\ Len(after) = Len(before)
    /\ \A k \in DOMAIN before :
          Occurrences(before[k], after) = Occurrences(before[k], before)

\* the values analyze_articles_with_ai may update an article with
BotUpdates ==
    {BotFallback, NoKeyValues}
    \cup {r.ai_analysis : r \in {x \in AiResponses : x.status = "200" /\ x.parsed}}

\* output has one article per article of input, in input's order: the k-th
\* is the k-th of input, updated
OneForOne(input, output) ==
    /\ Len(output) = Len(input)
    /\ \A k \in DOMAIN input : \E u \in BotUpdates : output[k] = Update(input[k], u)

\* C26: no step of analyze_articles loses or duplicates an article (the list
\* after it is a permutation of the list before it, enrichment aside), and
\* the list analyze_articles_with_ai returns has exactly one article per
\* article handed to it, in the same order.
C26_EnrichmentKeepsArticles ==
    [][/\ pc = "analyze" => SameArticles(collected_articles, collected_articles')
       /\ OneForOne(analysis_input', articles_cache')]_vars

\* analyze_articles has returned from six articles after a failed first
\* call and a second call that scored the sixth article, which the sort put
\* first
C26_Witness ==
    /\ pc = "digest"
    /\ Len(collected_articles) = batch_size + 1
    /\ Len(batch_log) = 2
    /\ batch_log[1].failed
    /\ ~batch_log[2].failed
    /\ collected_articles[1].url = BatchLinks[batch_size + 1]

====
